---- MODULE Spec2Model ----
(***************************************************************************)
(* Model of src/main.py: a pipeline that loads two vector layers from a    *)
(* PostGIS database, buffers the watercourses, intersects the buffers with *)
(* the land use layer and saves the result to a table and to a CSV file.   *)
(*                                                                         *)
(* Geometry is modelled on a one-dimensional axis cut into unit cells.  A  *)
(* Polygon is a set of cells; a LineString is a set of crossing positions  *)
(* (the boundary between cell p-1 and cell p).  A CRS fixes the origin of  *)
(* the axis, so reprojection shifts coordinates.                           *)
(***************************************************************************)
EXTENDS Integers, Sequences, FiniteSets, TLC

VARIABLES
    pc,               \* position of main: the step about to run, or its end
    run,              \* number of the current invocation of main
    db,               \* the database: table name -> table or Absent
    csv,              \* content of the output CSV file, or Absent
    log,              \* application.log, appended across runs
    logMark,          \* length of the log when the current run started
    engine,           \* main's local `engine` (0: not bound)
    created,          \* handles create_engine returned during this run
    used,             \* <<step, handle>> for every library call given a handle
    executed,         \* the steps called during this run, in order
    frames,           \* the frames loaded: main's locals and the read-back
    xform,            \* what apply_buffer_and_intersect did in this run
    filtered,         \* main's local `filtered_land_use_gdf`
    fail,             \* the failure in flight: step, library error, raised error
    buffer_distance,  \* parameter of main
    runStart,         \* the outputs when the current run started
    rt                \* geometry column name given to the read-back

vars == <<pc, run, db, csv, log, logMark, engine, created, used, executed,
          frames, xform, filtered, fail, buffer_distance, runStart, rt>>

\* ------------------------------------------------------------------ bounds
MaxRuns == 2
MaxBuffer == 1

\* --------------------------------------------------------------- constants
LAND_USE_TABLE == "landuse_10km"
WATERCOURSES_TABLE == "rivers_10km"
OUTPUT_TABLE_NAME == "landuse_results"
OUTPUT_CSV_FILE == "filtered_land_use_results.csv"
DefaultGeomCol == "geom"

Null == [null |-> TRUE]
Absent == [absent |-> TRUE]

\* -------------------------------------------------------------- exceptions
\* Exception classes a library call can raise with.
ErrKinds == {"SQLAlchemyError", "OSError", "ValueError"}

\* Names bound in the module's namespace: the imports and the builtins used.
DefinedNames == {"gpd", "psycopg2", "sql", "create_engine", "logging",
                 "Exception", "IOError"}

\* The class named by each function's except clause.
ExceptClass(step) ==
    CASE step = "get_engine" -> "SQLAlchemyError"
      [] step = "load_vector_layer" -> "Exception"
      [] step = "apply_buffer_and_intersect" -> "Exception"
      [] step = "save_geodataframe_to_postgresql" -> "SQLAlchemyError"
      [] step = "save_geodataframe_to_csv" -> "IOError"
      [] step = "main" -> "Exception"

\* The text of each function's logging.error line, up to the exception;
\* `what` is the table the layer loader was given.
ErrorMessage(step, what) ==
    CASE step = "get_engine" -> "Failed to create database engine"
      [] step = "load_vector_layer" -> "Failed to load vector layer '" \o what \o "'"
      [] step = "apply_buffer_and_intersect" -> "Failed to apply buffer and intersect"
      [] step = "save_geodataframe_to_postgresql" -> "Failed to save GeoDataFrame to PostgreSQL"
      [] step = "save_geodataframe_to_csv" -> "Failed to save GeoDataFrame to CSV"
      [] step = "main" -> "Failed to complete the main function"

\* isinstance(e, cls) for the classes above (IOError is an alias of OSError).
IsInstance(e, cls) ==
    \/ cls = "Exception"
    \/ cls = "IOError" /\ e.kind = "OSError"
    \/ cls = e.kind

Info(step, msg) == [level |-> "INFO", by |-> step, msg |-> msg]
ErrorLine(step, what, e) ==
    [level |-> "ERROR", by |-> step, msg |-> ErrorMessage(step, what), err |-> e]

\* try: ... except <ExceptClass(step)> as e: logging.error(...); raise
\* The except expression is evaluated only once an exception is in flight;
\* an unbound name there raises NameError in place of the exception.
Handle(step, what, e) ==
    IF ExceptClass(step) \notin DefinedNames
    THEN [lines |-> <<>>, raised |-> [kind |-> "NameError", at |-> step]]
    ELSE IF IsInstance(e, ExceptClass(step))
         THEN [lines |-> <<ErrorLine(step, what, e)>>, raised |-> e]
         ELSE [lines |-> <<>>, raised |-> e]

\* ---------------------------------------------------------------- geometry
CRSs == {"EPSG:32633", "EPSG:3857"}
NoCRS == "None"

\* Coordinate of the origin of CRS c on the common axis.
Origin(c) == IF c = "EPSG:3857" THEN 2 ELSE 0

Srid(c) == CASE c = "EPSG:32633" -> 32633 [] c = "EPSG:3857" -> 3857 [] OTHER -> 0
CrsOfSrid(s) == CASE s = 32633 -> "EPSG:32633" [] s = 3857 -> "EPSG:3857" [] OTHER -> NoCRS

Geom(type, cells) == [type |-> type, cells |-> cells]

\* Coordinates of geometry g, given in CRS `from`, expressed in CRS `to`.
Reproject(g, from, to) ==
    [g EXCEPT !.cells = {x + Origin(from) - Origin(to) : x \in g.cells}]

\* shapely buffer of one geometry: every point within distance d.
BufferGeom(g, d) ==
    Geom("Polygon",
         UNION { IF g.type = "Polygon" THEN (p - d)..(p + d) ELSE (p - d)..(p + d - 1)
                 : p \in g.cells })

Intersection(g, h) == Geom("Polygon", g.cells \cap h.cells)
IsEmpty(g) == g.cells = {}

\* ------------------------------------------------------------ GeoDataFrame
\* A GeoDataFrame: attribute columns, one geometry column, a CRS, the rows.
GeoDataFrame(geomcol, cols, crs, rows) ==
    [geomcol |-> geomcol, cols |-> cols, crs |-> crs, rows |-> rows]

Row(vals, geom) == [vals |-> vals, geom |-> geom]

Range(s) == {s[i] : i \in DOMAIN s}

\* GeoDataFrame.to_crs
ToCrs(gdf, crs) ==
    GeoDataFrame(gdf.geomcol, gdf.cols, crs,
                 [i \in DOMAIN gdf.rows |->
                     Row(gdf.rows[i].vals, Reproject(gdf.rows[i].geom, gdf.crs, crs))])

\* A buffer of the dissolved layer: one geometry for all records.
BufferDissolved(gdf, d) ==
    [crs |-> gdf.crs,
     geoms |-> IF gdf.rows = <<>> THEN <<>>
               ELSE <<Geom("Polygon",
                           UNION {BufferGeom(gdf.rows[i].geom, d).cells : i \in DOMAIN gdf.rows})>>]

\* GeoDataFrame.buffer: a GeoSeries, the geometries alone, one per record.
Buffer(gdf, d) ==
    [crs |-> gdf.crs,
     geoms |-> [i \in DOMAIN gdf.rows |-> BufferGeom(gdf.rows[i].geom, d)]]

\* gpd.GeoDataFrame(geometry=series, crs=crs)
FrameOfSeries(series, crs) ==
    GeoDataFrame("geometry", <<>>, crs,
                 [i \in DOMAIN series.geoms |-> Row(<<>>, series.geoms[i])])

\* Column names of an overlay: names in both frames get the suffixes _1, _2.
OverlayCols(c1, c2) ==
    [i \in DOMAIN c1 |-> IF c1[i] \in Range(c2) THEN c1[i] \o "_1" ELSE c1[i]]
    \o [j \in DOMAIN c2 |-> IF c2[j] \in Range(c1) THEN c2[j] \o "_2" ELSE c2[j]]

\* gpd.overlay(df1, df2, how='intersection'): one record per pair of records
\* whose geometries share area, in the order of df1 then df2.
Overlay(df1, df2) ==
    LET n == Len(df1.rows)
        m == Len(df2.rows)
        pairs == [k \in 1..(n * m) |-> <<((k - 1) \div m) + 1, ((k - 1) % m) + 1>>]
        Meets(p) == ~IsEmpty(Intersection(df1.rows[p[1]].geom, df2.rows[p[2]].geom))
        hits == SelectSeq(pairs, Meets)
    IN  GeoDataFrame("geometry", OverlayCols(df1.cols, df2.cols), df1.crs,
                     [k \in DOMAIN hits |->
                         Row(df1.rows[hits[k][1]].vals \o df2.rows[hits[k][2]].vals,
                             Intersection(df1.rows[hits[k][1]].geom,
                                          df2.rows[hits[k][2]].geom))])

\* The land use layer brought to the watercourses' CRS instead.
AlignLandUse(a, b) ==
    [a |-> IF a.crs # b.crs THEN ToCrs(a, b.crs) ELSE a,
     b |-> b,
     reprojected |-> a.crs # b.crs]

\* lines 58-59: the watercourses are brought to the land use CRS when the
\* two differ; the land use layer is passed on as it is.
Align(a, b) ==
    [a |-> a,
     b |-> IF a.crs # b.crs THEN ToCrs(b, a.crs) ELSE b,
     reprojected |-> a.crs # b.crs]

\* GeoDataFrame.to_crs raises ValueError on a frame without CRS and on a
\* target of None.
ToCrsRaises(a, b) == a.crs # b.crs /\ (a.crs = NoCRS \/ b.crs = NoCRS)

\* The buffers with the watercourses' attribute columns kept.
BufferedFrameKeepAttrs(a, b, d) ==
    GeoDataFrame("geometry", b.cols, a.crs,
                 [i \in DOMAIN b.rows |->
                     Row(b.rows[i].vals, BufferGeom(b.rows[i].geom, d))])

\* lines 63-66: the buffers as a GeoDataFrame labelled with the land use CRS.
BufferedFrame(a, b, d) == FrameOfSeries(Buffer(b, d), a.crs)

\* lines 56-71, the path on which no library call raises.
ApplyBufferAndIntersect(a, b, d) ==
    LET al == Align(a, b)
    IN  Overlay(al.a, BufferedFrame(al.a, al.b, d))

\* ---------------------------------------------------------------- database
\* A PostGIS table: the geometry column's name and declared type and SRID,
\* the attribute columns, and the rows with their geometry as EWKB.
Ewkb(g, srid) == [srid |-> srid, type |-> g.type, cells |-> g.cells]

\* A decoder that loses the geometry type.
OfEwkbUntyped(w) == Geom("GeometryCollection", w.cells)

OfEwkb(w) == Geom(w.type, w.cells)

GeometryType(gdf) ==
    LET types == {gdf.rows[i].geom.type : i \in DOMAIN gdf.rows}
    IN  IF Cardinality(types) = 1 THEN CHOOSE t \in types : TRUE ELSE "GEOMETRY"

\* The table GeoDataFrame.to_postgis creates from a frame.
ToPostgis(gdf) ==
    [geomcol |-> gdf.geomcol, cols |-> gdf.cols, gtype |-> GeometryType(gdf),
     srid |-> Srid(gdf.crs),
     rows |-> [i \in DOMAIN gdf.rows |->
                  [vals |-> gdf.rows[i].vals,
                   ewkb |-> Ewkb(gdf.rows[i].geom, Srid(gdf.crs))]]]

\* Same as to_postgis with if_exists='append'.
WriteTableAppend(old, gdf) ==
    IF old = Absent THEN ToPostgis(gdf)
    ELSE [old EXCEPT !.rows = @ \o ToPostgis(gdf).rows]

\* line 85: to_postgis(..., if_exists='replace', index=False) drops the table
\* found under the name and creates it anew from the frame.
WriteTable(old, gdf) == ToPostgis(gdf)

\* gpd.read_postgis("SELECT * FROM <table>", engine, geom_col): the error it
\* raises, or Null.
ReadRaises(table, geom_col) ==
    IF table = Absent THEN [kind |-> "SQLAlchemyError", at |-> "read_postgis"]
    ELSE IF table.geomcol # geom_col THEN [kind |-> "ValueError", at |-> "read_postgis"]
    ELSE Null

\* The frame read_postgis builds; its CRS is taken from the SRID of the first
\* geometry read, so a table without rows gives a frame without CRS.
ReadPostgis(table, geom_col) ==
    GeoDataFrame(geom_col, table.cols,
                 IF table.rows = <<>> THEN NoCRS ELSE CrsOfSrid(table.rows[1].ewkb.srid),
                 [i \in DOMAIN table.rows |->
                     Row(table.rows[i].vals, OfEwkb(table.rows[i].ewkb))])

\* --------------------------------------------------------------------- CSV
Wkt(g) == [wkt |-> g.type, coords |-> g.cells]

\* A file with the given lines.
File(lines) == [lines |-> lines]

\* to_csv: a header line with the column names, then one line per record
\* with the geometry as text.
ToCsv(gdf) ==
    File(<<[header |-> gdf.cols \o <<gdf.geomcol>>]>>
         \o [i \in DOMAIN gdf.rows |->
                [vals |-> gdf.rows[i].vals, wkt |-> Wkt(gdf.rows[i].geom)]])

\* Same as to_csv with mode='a'.
WriteCsvAppend(old, gdf) ==
    IF old = Absent THEN ToCsv(gdf) ELSE File(old.lines \o ToCsv(gdf).lines)

\* line 99: to_csv(file_path, index=False) writes the file anew.
WriteCsv(old, gdf) == ToCsv(gdf)

\* ------------------------------------------------------------------- state
land_use_gdf == frames.land_use_gdf
watercourses_gdf == frames.watercourses_gdf
readback == frames.readback

\* Land use polygons and watercourse lines, in EPSG:32633 coordinates.
LandUseRows ==
    <<Row(<<"farm">>, Geom("Polygon", {0, 1})),
      Row(<<"forest">>, Geom("Polygon", {2, 3}))>>

RiverRows ==
    <<Row(<<"rhine">>, Geom("LineString", {1})),
      Row(<<"main">>, Geom("LineString", {0, 1}))>>

\* A layer stored in the CRS crs.
Layer(geomcol, cols, crs, rows) ==
    ToPostgis(ToCrs(GeoDataFrame(geomcol, cols, "EPSG:32633", rows), crs))

LandUseTables ==
    {Layer("geom", <<"landuse">>, c, LandUseRows) : c \in {"EPSG:32633", NoCRS}}

RiverTables ==
    {Layer("geom", <<"name">>, c, RiverRows) : c \in CRSs \cup {NoCRS}}
    \cup {Layer("geom", <<"name">>, "EPSG:32633", SubSeq(RiverRows, 1, 1)),
          Layer("the_geom", <<"name">>, "EPSG:32633", RiverRows)}

\* A table of another schema found under the output name.
OldTable ==
    Layer("geom", <<"id", "note">>, "EPSG:3857",
          <<Row(<<"7", "stale">>, Geom("Polygon", {5}))>>)

OldCsv == File(<<[header |-> <<"id", "geom">>]>>)

NoXform == [attempted |-> FALSE, a |-> Null, aligned |-> Null, buffered |-> Null]
NoFrames == [land_use_gdf |-> Null, watercourses_gdf |-> Null, readback |-> Null]

\* What main's caller supplies: the database, the file system, the distance.
Environment ==
    /\ \E lu \in LandUseTables \cup {Absent}, wc \in RiverTables :
         \E out \in {Absent, OldTable} :
            db = [n \in {LAND_USE_TABLE, WATERCOURSES_TABLE, OUTPUT_TABLE_NAME} |->
                    CASE n = LAND_USE_TABLE -> lu
                      [] n = WATERCOURSES_TABLE -> wc
                      [] OTHER -> out]
    /\ \/ csv = Absent
       \/ csv = OldCsv
    /\ buffer_distance \in 0..MaxBuffer
    /\ log = <<>>
    /\ logMark = 0
    /\ run = 1

Init ==
    /\ Environment
    /\ pc = "get_engine"
    /\ engine = 0
    /\ created = 0
    /\ used = <<>>
    /\ executed = <<>>
    /\ frames = NoFrames
    /\ xform = NoXform
    /\ filtered = Null
    /\ fail = Null
    /\ runStart = [table |-> db[OUTPUT_TABLE_NAME], csv |-> csv, prevOk |-> FALSE]
    /\ rt = ""

\* ----------------------------------------------------------------- actions
\* The library call of `step` raised e after the step logged `pre`: the
\* step's handler runs and the exception leaves the step.
Raise(step, what, e, pre) ==
    LET h == Handle(step, what, e)
    IN  /\ log' = log \o pre \o h.lines
        /\ fail' = [step |-> step, what |-> what, lib |-> e, raised |-> h.raised,
                    out |-> Null]
        /\ pc' = "raised"

Err(kind, at) == [kind |-> kind, at |-> at]

\* lines 14-27
GetEngine ==
    /\ pc = "get_engine"
    /\ executed' = Append(executed, "get_engine")
    /\ \/ /\ created' = created + 1
          /\ engine' = created + 1
          /\ log' = Append(log, Info("get_engine", "Database engine created successfully."))
          /\ pc' = "load_land_use"
          /\ UNCHANGED fail
       \/ /\ \E k \in ErrKinds : Raise("get_engine", "", Err(k, "create_engine"), <<>>)
          /\ UNCHANGED <<created, engine>>
    /\ UNCHANGED <<run, db, csv, logMark, used, frames, xform, filtered,
                   buffer_distance, runStart, rt>>

\* lines 29-45, called as `target = load_vector_layer(h, table_name, geom_col)`
\* by a caller at `at` that goes on at `next`; `made` handles are created.
LoadStep(at, target, table_name, geom_col, h, made, next) ==
    /\ pc = at
    /\ executed' = Append(executed, at)
    /\ used' = Append(used, <<at, h>>)
    /\ created' = created + made
    /\ LET t == db[table_name]
           r == ReadRaises(t, geom_col)
       IN  \/ /\ r = Null
              /\ frames' = [frames EXCEPT ![target] = ReadPostgis(t, geom_col)]
              /\ log' = Append(log, Info("load_vector_layer",
                                         "Loaded vector layer '" \o table_name \o "' successfully."))
              /\ pc' = next
              /\ UNCHANGED fail
           \/ /\ r # Null
              /\ Raise("load_vector_layer", table_name, r, <<>>)
              /\ UNCHANGED frames
           \/ /\ r = Null
              /\ \E k \in ErrKinds : Raise("load_vector_layer", table_name, Err(k, "read_postgis"), <<>>)
              /\ UNCHANGED frames
    /\ UNCHANGED <<run, db, csv, logMark, engine, xform, filtered,
                   buffer_distance, runStart>>

\* A load that opens a connection of its own.
LoadLandUseOwnEngine ==
    /\ LoadStep("load_land_use", "land_use_gdf", LAND_USE_TABLE, DefaultGeomCol,
                created + 1, 1, "load_watercourses")
    /\ UNCHANGED rt

\* line 121
LoadLandUse ==
    /\ LoadStep("load_land_use", "land_use_gdf", LAND_USE_TABLE, DefaultGeomCol,
                engine, 0, "load_watercourses")
    /\ UNCHANGED rt

\* line 122
LoadWatercourses ==
    /\ LoadStep("load_watercourses", "watercourses_gdf", WATERCOURSES_TABLE,
                DefaultGeomCol, engine, 0, "transform")
    /\ UNCHANGED rt

\* lines 47-74, called at line 125
Transform ==
    /\ pc = "transform"
    /\ executed' = Append(executed, "apply_buffer_and_intersect")
    /\ LET step == "apply_buffer_and_intersect"
           al == Align(land_use_gdf, watercourses_gdf)
           adjusted == IF al.reprojected
                       THEN <<Info(step, "CRS adjusted to match between layers.")>>
                       ELSE <<>>
           buffered == BufferedFrame(al.a, al.b, buffer_distance)
       IN  \/ \* to_crs raises
              /\ al.reprojected
              /\ IF ToCrsRaises(land_use_gdf, watercourses_gdf)
                 THEN Raise(step, "", Err("ValueError", "to_crs"), <<>>)
                 ELSE \E k \in ErrKinds : Raise(step, "", Err(k, "to_crs"), <<>>)
              /\ xform' = [NoXform EXCEPT !.attempted = TRUE]
              /\ UNCHANGED filtered
           \/ \* buffer raises
              /\ ~ToCrsRaises(land_use_gdf, watercourses_gdf)
              /\ \E k \in ErrKinds : Raise(step, "", Err(k, "buffer"), adjusted)
              /\ xform' = [attempted |-> al.reprojected, a |-> al.a,
                           aligned |-> al.b, buffered |-> Null]
              /\ UNCHANGED filtered
           \/ \* overlay raises
              /\ ~ToCrsRaises(land_use_gdf, watercourses_gdf)
              /\ \E k \in ErrKinds : Raise(step, "", Err(k, "overlay"), adjusted)
              /\ xform' = [attempted |-> al.reprojected, a |-> al.a,
                           aligned |-> al.b, buffered |-> buffered]
              /\ UNCHANGED filtered
           \/ \* no library call raises
              /\ ~ToCrsRaises(land_use_gdf, watercourses_gdf)
              /\ filtered' = Overlay(al.a, buffered)
              /\ xform' = [attempted |-> al.reprojected, a |-> al.a,
                           aligned |-> al.b, buffered |-> buffered]
              /\ log' = log \o adjusted
                        \o <<Info(step, "Applied buffer and intersection successfully.")>>
              /\ pc' = "save_db"
              /\ UNCHANGED fail
    /\ UNCHANGED <<run, db, csv, logMark, engine, created, used, frames,
                   buffer_distance, runStart, rt>>

\* lines 76-89, called by a caller that goes on at `next`.  A write that
\* raises leaves the table as it was or dropped.
SaveDbStep(next) ==
    /\ pc = "save_db"
    /\ executed' = Append(executed, "save_db")
    /\ used' = Append(used, <<"save_db", engine>>)
    /\ \/ /\ db' = [db EXCEPT ![OUTPUT_TABLE_NAME] = WriteTable(@, filtered)]
          /\ log' = Append(log, Info("save_geodataframe_to_postgresql",
                                     "Data saved to PostgreSQL table: " \o OUTPUT_TABLE_NAME))
          /\ pc' = next
          /\ UNCHANGED fail
       \/ /\ \E k \in ErrKinds :
               Raise("save_geodataframe_to_postgresql", "", Err(k, "to_postgis"), <<>>)
          /\ \/ UNCHANGED db
             \/ db' = [db EXCEPT ![OUTPUT_TABLE_NAME] = Absent]
    /\ UNCHANGED <<run, csv, logMark, engine, created, frames, xform, filtered,
                   buffer_distance, runStart, rt>>

\* A database write whose failure is logged and passed over.
SaveDbBestEffort ==
    /\ pc = "save_db"
    /\ executed' = Append(executed, "save_db")
    /\ used' = Append(used, <<"save_db", engine>>)
    /\ \/ /\ db' = [db EXCEPT ![OUTPUT_TABLE_NAME] = WriteTable(@, filtered)]
          /\ log' = Append(log, Info("save_geodataframe_to_postgresql",
                                     "Data saved to PostgreSQL table: " \o OUTPUT_TABLE_NAME))
       \/ /\ \E k \in ErrKinds :
               log' = Append(log, ErrorLine("save_geodataframe_to_postgresql", "",
                                            Err(k, "to_postgis")))
          /\ UNCHANGED db
    /\ pc' = "save_csv"
    /\ UNCHANGED <<run, csv, logMark, engine, created, frames, xform, filtered,
                   fail, buffer_distance, runStart, rt>>

\* line 128
SaveDb == SaveDbStep("save_csv")

\* lines 91-103, called at line 129.  A write that raises leaves the file as
\* it was or truncated.
SaveCsv ==
    /\ pc = "save_csv"
    /\ executed' = Append(executed, "save_csv")
    /\ \/ /\ csv' = WriteCsv(csv, filtered)
          /\ log' = Append(log, Info("save_geodataframe_to_csv",
                                     "Data saved to CSV file: " \o OUTPUT_CSV_FILE))
          /\ pc' = "done"
          /\ UNCHANGED fail
       \/ /\ \E k \in ErrKinds : Raise("save_geodataframe_to_csv", "", Err(k, "to_csv"), <<>>)
          /\ \/ UNCHANGED csv
             \/ csv' = File(<<>>)
    /\ UNCHANGED <<run, db, logMark, engine, created, used, frames, xform,
                   filtered, buffer_distance, runStart, rt>>

\* A handler that logs and does not re-raise: main returns normally.
MainExceptSwallow ==
    /\ pc = "raised"
    /\ log' = log \o Handle("main", "", fail.raised).lines
    /\ pc' = "done"
    /\ UNCHANGED <<run, db, csv, logMark, engine, created, used, executed,
                   frames, xform, filtered, fail, buffer_distance, runStart, rt>>

\* lines 130-132: main's handler logs one line and re-raises.
MainExcept ==
    /\ pc = "raised"
    /\ LET h == Handle("main", "", fail.raised)
       IN  /\ log' = log \o h.lines
           /\ fail' = [fail EXCEPT !.out = h.raised]
    /\ pc' = "failed"
    /\ UNCHANGED <<run, db, csv, logMark, engine, created, used, executed,
                   frames, xform, filtered, buffer_distance, runStart, rt>>

\* line 144 run again: main is called with the same arguments against the
\* database, file and log the previous run left.
Rerun ==
    /\ pc \in {"done", "failed"}
    /\ run < MaxRuns
    /\ run' = run + 1
    /\ pc' = "get_engine"
    /\ logMark' = Len(log)
    /\ runStart' = [table |-> db[OUTPUT_TABLE_NAME], csv |-> csv, prevOk |-> pc = "done"]
    /\ engine' = 0
    /\ created' = 0
    /\ used' = <<>>
    /\ executed' = <<>>
    /\ frames' = NoFrames
    /\ xform' = NoXform
    /\ filtered' = Null
    /\ fail' = Null
    /\ UNCHANGED <<db, csv, log, buffer_distance, rt>>

Next ==
    \/ GetEngine
    \/ LoadLandUse
    \/ LoadWatercourses
    \/ Transform
    \/ SaveDb
    \/ SaveCsv
    \/ MainExcept
    \/ Rerun

Spec == Init /\ [][Next]_vars

\* ------------------------------------------------- round trip of a result
\* A result of apply_buffer_and_intersect is written with
\* save_geodataframe_to_postgresql and the table is loaded again with
\* load_vector_layer, with the default geometry column name or with the
\* frame's own.
RoundTripInit ==
    /\ Environment
    /\ ReadRaises(db[LAND_USE_TABLE], DefaultGeomCol) = Null
    /\ ReadRaises(db[WATERCOURSES_TABLE], DefaultGeomCol) = Null
    /\ LET a == ReadPostgis(db[LAND_USE_TABLE], DefaultGeomCol)
           b == ReadPostgis(db[WATERCOURSES_TABLE], DefaultGeomCol)
       IN  /\ ~ToCrsRaises(a, b)
           /\ filtered = ApplyBufferAndIntersect(a, b, buffer_distance)
    /\ pc = "save_db"
    /\ engine = 1
    /\ created = 1
    /\ used = <<>>
    /\ executed = <<>>
    /\ frames = NoFrames
    /\ xform = NoXform
    /\ fail = Null
    /\ runStart = [table |-> db[OUTPUT_TABLE_NAME], csv |-> csv, prevOk |-> FALSE]
    /\ rt = ""

WriteResult == SaveDbStep("read_back")

ReadBack ==
    \E geom_col \in {DefaultGeomCol, filtered.geomcol} :
        /\ LoadStep("read_back", "readback", OUTPUT_TABLE_NAME, geom_col,
                    engine, 0, "read")
        /\ rt' = geom_col

RoundTripNext ==
    \/ WriteResult
    \/ ReadBack

SpecRoundTrip == RoundTripInit /\ [][RoundTripNext]_vars

\* ------------------------------------------------------------- properties
RunLog == SubSeq(log, logMark + 1, Len(log))

StepOrder ==
    <<"get_engine", "load_land_use", "load_watercourses",
      "apply_buffer_and_intersect", "save_db", "save_csv">>

\* The function main calls at each of its steps.
FunctionAt(at) ==
    CASE at = "get_engine" -> "get_engine"
      [] at \in {"load_land_use", "load_watercourses"} -> "load_vector_layer"
      [] at = "apply_buffer_and_intersect" -> "apply_buffer_and_intersect"
      [] at = "save_db" -> "save_geodataframe_to_postgresql"
      [] at = "save_csv" -> "save_geodataframe_to_csv"

Raised == pc \in {"raised", "failed"}

\* The output table holds the columns and the records of frame g and no more.
TableHolds(t, g) ==
    /\ t # Absent
    /\ t.geomcol = g.geomcol
    /\ t.cols = g.cols
    /\ t.srid = Srid(g.crs)
    /\ Len(t.rows) = Len(g.rows)
    /\ \A i \in DOMAIN g.rows :
          /\ t.rows[i].vals = g.rows[i].vals
          /\ t.rows[i].ewkb.type = g.rows[i].geom.type
          /\ t.rows[i].ewkb.cells = g.rows[i].geom.cells

\* C1: in each of the five steps, when the library call fails with an error
\* e, the step logs an error line for it and the caller receives that same e.
C1_StepLogsAndReraisesSame ==
    pc = "raised" =>
        /\ fail.raised = fail.lib
        /\ RunLog # <<>>
        /\ log[Len(log)] = ErrorLine(fail.step, fail.what, fail.lib)

\* C2: the first failure of a step aborts the run: the steps run in main's
\* order, none runs after the failing one, main logs exactly one error line,
\* the last of the run, and ends failed, raising what the step raised.
C2_FirstFailureAborts ==
    /\ Len(executed) <= Len(StepOrder)
    /\ executed = SubSeq(StepOrder, 1, Len(executed))
    /\ (fail # Null) <=> Raised
    /\ Raised =>
          /\ executed # <<>>
          /\ FunctionAt(executed[Len(executed)]) = fail.step
    /\ LET mainLines == {i \in DOMAIN RunLog :
                            RunLog[i].level = "ERROR" /\ RunLog[i].by = "main"}
       IN  /\ pc = "failed" =>
                 /\ mainLines = {Len(RunLog)}
                 /\ RunLog[Len(RunLog)].err = fail.raised
                 /\ fail.out = fail.raised
           /\ pc # "failed" => mainLines = {}

C2_Witness ==
    /\ pc = "failed"
    /\ fail.step = "load_vector_layer"
    /\ executed = <<"get_engine", "load_land_use", "load_watercourses">>

\* C3 as claimed: every attribute column of both inputs is a column of the
\* result (under its own name or suffixed on a collision).
C3_ResultHasColumnsOfBothInputs ==
    filtered # Null =>
        /\ Len(filtered.cols) = Len(land_use_gdf.cols) + Len(watercourses_gdf.cols)
        /\ \A c \in Range(land_use_gdf.cols) \cup Range(watercourses_gdf.cols) :
              \/ c \in Range(filtered.cols)
              \/ (c \o "_1") \in Range(filtered.cols)
              \/ (c \o "_2") \in Range(filtered.cols)

\* C3 amended: the result has the attribute columns of the land use layer
\* only; every record carries the values of one land use record and no
\* attribute value of a watercourse.
C3_ResultHasLandUseColumnsOnly ==
    filtered # Null =>
        /\ filtered.cols = land_use_gdf.cols
        /\ \A i \in DOMAIN filtered.rows :
              /\ \E j \in DOMAIN land_use_gdf.rows :
                    filtered.rows[i].vals = land_use_gdf.rows[j].vals
              /\ \A j \in DOMAIN watercourses_gdf.rows :
                    Range(watercourses_gdf.rows[j].vals)
                        \cap Range(filtered.rows[i].vals) = {}

C3_Witness ==
    /\ filtered # Null
    /\ Len(filtered.rows) > 1
    /\ watercourses_gdf.cols # <<>>

\* The frame read back has the records of the frame written.
SameRecords(g, h) ==
    /\ g.cols = h.cols
    /\ Len(g.rows) = Len(h.rows)
    /\ \A i \in DOMAIN h.rows :
          /\ g.rows[i].vals = h.rows[i].vals
          /\ g.rows[i].geom.type = h.rows[i].geom.type

C5_ReprojectIffCrsDiffer ==
    /\ xform.attempted => land_use_gdf.crs # watercourses_gdf.crs
    /\ xform.aligned # Null =>
          /\ xform.attempted <=> (land_use_gdf.crs # watercourses_gdf.crs)
          /\ xform.aligned.crs = land_use_gdf.crs
          /\ Len(xform.aligned.rows) = Len(watercourses_gdf.rows)
          /\ \A i \in DOMAIN watercourses_gdf.rows :
                Reproject(xform.aligned.rows[i].geom, land_use_gdf.crs,
                          watercourses_gdf.crs) = watercourses_gdf.rows[i].geom
          /\ xform.a = land_use_gdf
          /\ land_use_gdf = ReadPostgis(db[LAND_USE_TABLE], DefaultGeomCol)
          /\ xform.buffered # Null => xform.buffered.crs = land_use_gdf.crs
          /\ filtered # Null => filtered.crs = land_use_gdf.crs
          /\ land_use_gdf.crs = watercourses_gdf.crs =>
                \A i \in DOMAIN RunLog :
                    RunLog[i].msg # "CRS adjusted to match between layers."

C5_Witness ==
    /\ filtered # Null
    /\ xform.attempted
    /\ xform.aligned.rows # watercourses_gdf.rows
    /\ Len(filtered.rows) > 0

\* C6: a run that completes after a completed run leaves the output table
\* and the output file as the earlier run left them.
C6_SecondRunLeavesOutputsIdentical ==
    (pc = "done" /\ runStart.prevOk) =>
        /\ db[OUTPUT_TABLE_NAME] = runStart.table
        /\ csv = runStart.csv

C6_Witness ==
    /\ pc = "done"
    /\ run = 2
    /\ runStart.prevOk
    /\ Len(filtered.rows) > 1
    /\ Len(csv.lines) = Len(filtered.rows) + 1

\* The database write of this run has returned: it logged its success.
DbWritten ==
    \E i \in DOMAIN RunLog :
        /\ RunLog[i].level = "INFO"
        /\ RunLog[i].by = "save_geodataframe_to_postgresql"

\* C7: after a successful database write the output table has the schema and
\* the records of the written frame, whatever table was there before.
C7_WriteReplacesTable ==
    DbWritten => TableHolds(db[OUTPUT_TABLE_NAME], filtered)

C7_Witness ==
    /\ pc = "save_csv"
    /\ runStart.table = OldTable
    /\ Len(filtered.rows) > 0
    /\ Range(runStart.table.cols) \cap Range(db[OUTPUT_TABLE_NAME].cols) = {}

\* The watercourse records whose buffer shares area with land use record i.
Crossing(i) ==
    {j \in DOMAIN xform.aligned.rows :
        BufferGeom(xform.aligned.rows[j].geom, buffer_distance).cells
            \cap land_use_gdf.rows[i].geom.cells # {}}

\* C8: there is one buffer per watercourse record, and the result has one
\* record per pair of a land use record and a buffer that share area: a land
\* use record crossed by k buffers is in the result k times.
C8_OneRecordPerIntersectingPair ==
    filtered # Null =>
        /\ Len(xform.buffered.rows) = Len(watercourses_gdf.rows)
        /\ \A j \in DOMAIN xform.buffered.rows :
              xform.buffered.rows[j].geom =
                  BufferGeom(xform.aligned.rows[j].geom, buffer_distance)
        /\ \A i \in DOMAIN land_use_gdf.rows :
              Cardinality({k \in DOMAIN filtered.rows :
                              filtered.rows[k].vals = land_use_gdf.rows[i].vals})
                  = Cardinality(Crossing(i))
        /\ \A k \in DOMAIN filtered.rows :
              /\ filtered.rows[k].geom.cells # {}
              /\ \E i \in DOMAIN land_use_gdf.rows :
                    /\ filtered.rows[k].vals = land_use_gdf.rows[i].vals
                    /\ \E j \in Crossing(i) :
                          filtered.rows[k].geom.cells =
                              land_use_gdf.rows[i].geom.cells
                                  \cap xform.buffered.rows[j].geom.cells

C8_Witness ==
    /\ filtered # Null
    /\ \E i \in DOMAIN land_use_gdf.rows :
          /\ Cardinality(Crossing(i)) = 2
          /\ Cardinality({k \in DOMAIN filtered.rows :
                             filtered.rows[k].vals = land_use_gdf.rows[i].vals}) = 2
    /\ \E i \in DOMAIN land_use_gdf.rows : Crossing(i) = {}

\* C9: a run creates at most one handle, with get_engine as its first step,
\* and every load and the database write are given that handle.
C9_OneHandleReused ==
    /\ created <= 1
    /\ executed # <<>> => executed[1] = "get_engine"
    /\ Cardinality({i \in DOMAIN executed : executed[i] = "get_engine"}) <= 1
    /\ \A i \in DOMAIN used : used[i][2] = engine /\ engine # 0
    /\ engine # 0 => created = 1

C9_Witness ==
    /\ pc = "done"
    /\ used = <<<<"load_land_use", engine>>, <<"load_watercourses", engine>>,
                <<"save_db", engine>>>>

\* C10: the file is written only after the database write of the same run
\* returned; a failure of an earlier step leaves the file and the table as
\* they were, a failure of the database write leaves the file as it was, and
\* a failing file write leaves the replaced table in place.
C10_CsvOnlyAfterDbWrite ==
    /\ csv # runStart.csv => DbWritten /\ "save_csv" \in Range(executed)
    /\ "save_csv" \in Range(executed) => DbWritten
    /\ db[OUTPUT_TABLE_NAME] # runStart.table => "save_db" \in Range(executed)
    /\ (Raised /\ fail.step # "save_geodataframe_to_csv") => csv = runStart.csv
    /\ (Raised /\ fail.step \notin {"save_geodataframe_to_csv",
                                    "save_geodataframe_to_postgresql"}) =>
          db[OUTPUT_TABLE_NAME] = runStart.table
    /\ (Raised /\ fail.step = "save_geodataframe_to_csv") =>
          TableHolds(db[OUTPUT_TABLE_NAME], filtered)

C10_Witness ==
    /\ pc = "failed"
    /\ fail.step = "save_geodataframe_to_csv"
    /\ runStart.table = OldTable
    /\ db[OUTPUT_TABLE_NAME] # runStart.table
    /\ csv = runStart.csv

====
